---- MODULE Spec2Model ----
(***************************************************************************)
(* Model of the graph endpoint of the workflow visualizer backend          *)
(* (src/README.md lines 42-473): branch ranking, quota-bounded commit      *)
(* collection, ancestor expansion (ensureParents), graph assembly          *)
(* (buildGraphFromCommits), stats, cache and error reporting.              *)
(*                                                                         *)
(* Commit ids (sha) are the naturals 1..N of a history; a commit's date is *)
(* its id.  Null (a failed lookup, a missing value) is 0.  Ordered JS      *)
(* containers (Array, Map, Set of shas) are sequences in insertion order;  *)
(* a node's branches array, whose order no operation reads, is a set.      *)
(***************************************************************************)
EXTENDS Integers, Sequences, FiniteSets, TLC

\* ------------------------------------------------------------------ bounds
\* Largest maxCommits query value explored (the code accepts any integer).
MaxCommits == 6
\* Requests served one after the other against the same cache.
MaxRequests == 2
\* per_page of the collection loop (100 in the source), scaled down so that
\* histories of a few commits span several pages.
PerPage == 2
\* batchSize of ensureParents (10 in the source), scaled down likewise.
batchSize == 2
\* The cap on parents to fetch (200 in the source, also MAX_PARENT_FETCH),
\* scaled down likewise.
ParentCap == 3
\* MAX_PARENT_FETCH, the maxFetch handed to ensureParents (200 in the source),
\* scaled down likewise.
MAX_PARENT_FETCH == 3

\* ------------------------------------------------------- program constants
MAX_BRANCHES == 5
\* null / undefined / a missing date
Null == 0
\* a null branch name (fetchDefaultBranch returning null)
NullName == ""

\* --------------------------------------------------------- sequence helpers
Min(a, b) == IF a < b THEN a ELSE b

Range(s) == {s[i] : i \in DOMAIN s}

Has(s, x) == \E i \in DOMAIN s : s[i] = x

Take(s, n) == SubSeq(s, 1, Min(n, Len(s)))

RemoveAt(s, i) == SubSeq(s, 1, i-1) \o SubSeq(s, i+1, Len(s))

\* new Set(...).add / Array.from: append unless present
AddUnique(s, x) == IF Has(s, x) THEN s ELSE Append(s, x)

\* ------------------------------------------------- the provider's histories
\* parents[id]: ordered parent ids; authors[id]: author name ("" when the
\* record has none); listed: names returned by listBranches, in order;
\* tips: every ref the provider resolves; default: default_branch.
Histories == <<
  \* 1: a split at 2 and a merge at 5; dev is merged into main
  [ parents |-> << <<>>, <<1>>, <<2>>, <<2>>, <<3, 4>> >>,
    authors |-> << "ann", "ann", "bob", "", "bob" >>,
    listed  |-> << "dev", "main" >>,
    tips    |-> [ b \in {"dev", "main"} |-> IF b = "dev" THEN 4 ELSE 5 ],
    default |-> "main" ],
  \* 2: a commit record that names the same parent twice
  [ parents |-> << <<>>, <<1, 1>>, <<2>> >>,
    authors |-> << "ann", "ann", "ann" >>,
    listed  |-> << "main" >>,
    tips    |-> [ b \in {"main"} |-> 3 ],
    default |-> "main" ],
  \* 3: the default branch is not in the branch list; two branches share root 1
  [ parents |-> << <<>>, <<1>>, <<1>>, <<3>> >>,
    authors |-> << "", "ann", "bob", "bob" >>,
    listed  |-> << "feat" >>,
    tips    |-> [ b \in {"feat", "main"} |-> IF b = "feat" THEN 4 ELSE 2 ],
    default |-> "main" ],
  \* 4: a provider whose parent relation is cyclic
  [ parents |-> << <<2>>, <<1>> >>,
    authors |-> << "ann", "bob" >>,
    listed  |-> << "main" >>,
    tips    |-> [ b \in {"main"} |-> 2 ],
    default |-> "main" ],
  \* 5: six listed branches on one root, more than MAX_BRANCHES
  [ parents |-> << <<>>, <<1>>, <<1>>, <<1>>, <<1>>, <<1>>, <<1>> >>,
    authors |-> << "ann", "ann", "ann", "bob", "bob", "bob", "" >>,
    listed  |-> << "b1", "b2", "b3", "b4", "b5", "b6" >>,
    tips    |-> [ b \in {"b1", "b2", "b3", "b4", "b5", "b6"} |->
                  CASE b = "b1" -> 2 [] b = "b2" -> 3 [] b = "b3" -> 4
                    [] b = "b4" -> 5 [] b = "b5" -> 6 [] OTHER -> 7 ],
    default |-> "b3" ],
  \* 6: two branches cut by quota above their common ancestors, two merges
  [ parents |-> << <<>>, <<>>, <<1, 2>>, <<1, 2>>, <<3>>, <<4>> >>,
    authors |-> << "ann", "bob", "ann", "bob", "ann", "bob" >>,
    listed  |-> << "topic", "main" >>,
    tips    |-> [ b \in {"topic", "main"} |-> IF b = "main" THEN 5 ELSE 6 ],
    default |-> "main" ],
  \* 7: two merge commits with four distinct parents, more than ParentCap
  [ parents |-> << <<>>, <<>>, <<>>, <<>>, <<1, 2>>, <<3, 4>> >>,
    authors |-> << "ann", "bob", "cat", "dan", "ann", "bob" >>,
    listed  |-> << "main", "next" >>,
    tips    |-> [ b \in {"main", "next"} |-> IF b = "main" THEN 5 ELSE 6 ],
    default |-> "main" ],
  \* 8: two branches on one root: branchA three commits ahead (2, 3, 4),
  \* branchB two (5, 6)
  [ parents |-> << <<>>, <<1>>, <<2>>, <<3>>, <<1>>, <<5>> >>,
    authors |-> << "ann", "ann", "ann", "ann", "bob", "bob" >>,
    listed  |-> << "branchA", "branchB" >>,
    tips    |-> [ b \in {"branchA", "branchB"} |-> IF b = "branchA" THEN 4 ELSE 6 ],
    default |-> "branchA" ]
>>

\* A commit record as the provider returns it.
Commit(h, id) == [ sha |-> id, parents |-> h.parents[id], author |-> h.authors[id],
                   message |-> "msg", date |-> id ]

RECURSIVE ReachFrom(_, _, _)
ReachFrom(h, frontier, acc) ==
  IF frontier = {} THEN acc
  ELSE LET next == UNION {Range(h.parents[c]) : c \in frontier} \ (acc \cup frontier)
       IN ReachFrom(h, next, acc \cup frontier)

RECURSIVE SortDesc(_)
SortDesc(S) ==
  IF S = {} THEN <<>>
  ELSE LET m == CHOOSE x \in S : \A y \in S : y <= x
       IN <<m>> \o SortDesc(S \ {m})

\* listCommits(ref): every commit reachable from the ref, newest first.
Listing(h, ref) == SortDesc(ReachFrom(h, {h.tips[ref]}, {}))

\* listCommits(ref, page, per_page): an empty page past the end
PageOf(h, ref, p) ==
  LET l == Listing(h, ref)
  IN SubSeq(l, (p - 1) * PerPage + 1, Min(p * PerPage, Len(l)))

\* the parent relation of a history has no cycle
HistoryAcyclic(h) ==
  \A c \in DOMAIN h.parents :
    c \notin ReachFrom(h, Range(h.parents[c]), {})

\* ------------------------------------------------------------ branch ranker
\* the comparator of branchInfos.sort: negative when a goes before b
CompareInfos(a, b) ==
  IF a.latestDate = Null /\ b.latestDate = Null THEN 0
  ELSE IF a.latestDate = Null THEN 1
  ELSE IF b.latestDate = Null THEN -1
  ELSE b.latestDate - a.latestDate

\* Array.prototype.sort is stable: x goes before the first element it
\* strictly precedes, after everything else
InsertSorted(sorted, x) ==
  IF \E i \in DOMAIN sorted : CompareInfos(x, sorted[i]) < 0
  THEN LET i == CHOOSE k \in DOMAIN sorted :
                  /\ CompareInfos(x, sorted[k]) < 0
                  /\ \A j \in 1..(k-1) : CompareInfos(x, sorted[j]) >= 0
       IN SubSeq(sorted, 1, i-1) \o <<x>> \o SubSeq(sorted, i, Len(sorted))
  ELSE Append(sorted, x)

RECURSIVE SortInfos(_, _)
SortInfos(infos, acc) ==
  IF infos = <<>> THEN acc
  ELSE SortInfos(Tail(infos), InsertSorted(acc, Head(infos)))

\* DefaultFirst putting the default in front without removing it from its place
DefaultFirstCopied(infos, def) ==
  IF def = NullName THEN infos
  ELSE <<[name |-> def, latestDate |-> Null]>> \o infos

\* "Ensure default branch is first, regardless of date"
DefaultFirst(infos, def) ==
  IF def = NullName THEN infos
  ELSE LET idx == IF \E i \in DOMAIN infos : infos[i].name = def
                  THEN CHOOSE i \in DOMAIN infos :
                         infos[i].name = def /\ \A j \in 1..(i-1) : infos[j].name # def
                  ELSE 0
       IN IF idx >= 1 THEN <<infos[idx]>> \o RemoveAt(infos, idx)
          ELSE <<[name |-> def, latestDate |-> Null]>> \o infos

\* branchTips: sorted, default first, at most MAX_BRANCHES names
SelectBranches(infos, def) ==
  LET sel == Take(DefaultFirst(SortInfos(infos, <<>>), def), MAX_BRANCHES)
  IN [i \in DOMAIN sel |-> sel[i].name]

\* ----------------------------------------------------------- quota allocator
commitsPerBranch(mc, tips) == mc \div Len(tips)
extraCommits(mc, tips) == mc % Len(tips)
\* BranchQuota giving the extra unit to one branch too many
BranchQuotaOneMore(mc, tips, i) ==
  commitsPerBranch(mc, tips) + (IF i - 1 <= extraCommits(mc, tips) THEN 1 ELSE 0)

\* the quota of the branch at (1-based) position i of branchTips
BranchQuota(mc, tips, i) ==
  commitsPerBranch(mc, tips) + (IF i - 1 < extraCommits(mc, tips) THEN 1 ELSE 0)

\* ------------------------------------------------------------- graph builder
\* nodesBySha is a JS Map: a sequence of nodes in insertion order, one per id
NodeIndex(nodes, sha) ==
  IF \E i \in DOMAIN nodes : nodes[i].id = sha
  THEN CHOOSE i \in DOMAIN nodes : nodes[i].id = sha
  ELSE 0

\* Map.set: replaces the value of an existing key in place, appends a new key
MapSet(nodes, n) ==
  LET i == NodeIndex(nodes, n.id)
  IN IF i = 0 THEN Append(nodes, n) ELSE [nodes EXCEPT ![i] = n]

NewNode(c, c2b) ==
  [ id |-> c.sha, author |-> c.author, message |-> c.message, date |-> c.date,
    branches |-> IF c.sha \in DOMAIN c2b THEN c2b[c.sha] ELSE {},
    parentShas |-> c.parents, childShas |-> <<>>,
    isMerge |-> FALSE, isSplit |-> FALSE ]

\* Placeholder without the branches of the child
PlaceholderNoBranches(parentSha, inheritedBranches) ==
  [ id |-> parentSha, author |-> "", message |-> "(parent)", date |-> Null,
    branches |-> {},
    parentShas |-> <<>>, childShas |-> <<>>,
    isMerge |-> FALSE, isSplit |-> FALSE ]

Placeholder(parentSha, inheritedBranches) ==
  [ id |-> parentSha, author |-> "", message |-> "(parent)", date |-> Null,
    branches |-> inheritedBranches,
    parentShas |-> <<>>, childShas |-> <<>>,
    isMerge |-> FALSE, isSplit |-> FALSE ]

\* pass 1: one node per commit
RECURSIVE CreateNodes(_, _, _)
CreateNodes(commits, c2b, nodes) ==
  IF commits = <<>> THEN nodes
  ELSE CreateNodes(Tail(commits), c2b, MapSet(nodes, NewNode(Head(commits), c2b)))

\* PushLink with source and target exchanged
PushLinkReversed(links, childSha, parentSha) ==
  Append(links, [source |-> parentSha, target |-> childSha])

\* the links pushed for one (child, parent) pair
PushLink(links, childSha, parentSha) ==
  Append(links, [source |-> childSha, target |-> parentSha])

\* LinkParent without the creation of placeholders
LinkParentNoPlaceholder(g, childSha, parentSha) ==
  LET pi == NodeIndex(g.nodes, parentSha)
  IN [ nodes |-> IF pi = 0 THEN g.nodes
                 ELSE [g.nodes EXCEPT ![pi].childShas = AddUnique(@, childSha)],
       links |-> PushLink(g.links, childSha, parentSha) ]

\* LinkParent registering the child only with a parent that already existed
LinkParentElseBranch(g, childSha, parentSha) ==
  LET ci == NodeIndex(g.nodes, childSha)
      pi == NodeIndex(g.nodes, parentSha)
  IN [ nodes |-> IF pi = 0
                 THEN Append(g.nodes, Placeholder(parentSha,
                                 IF ci = 0 THEN {} ELSE g.nodes[ci].branches))
                 ELSE [g.nodes EXCEPT ![pi].childShas = AddUnique(@, childSha)],
       links |-> PushLink(g.links, childSha, parentSha) ]

\* LinkParent pushing the child onto the parent's parentShas
LinkParentTypo(g, childSha, parentSha) ==
  LET ci     == NodeIndex(g.nodes, childSha)
      nodes1 == IF NodeIndex(g.nodes, parentSha) = 0
                THEN Append(g.nodes, Placeholder(parentSha,
                                IF ci = 0 THEN {} ELSE g.nodes[ci].branches))
                ELSE g.nodes
      pi     == NodeIndex(nodes1, parentSha)
  IN [ nodes |-> [nodes1 EXCEPT ![pi].parentShas = AddUnique(@, childSha)],
       links |-> PushLink(g.links, childSha, parentSha) ]

\* pass 2, inner loop body: one parent of one commit
LinkParent(g, childSha, parentSha) ==
  LET ci     == NodeIndex(g.nodes, childSha)
      inh    == IF ci = 0 THEN {} ELSE g.nodes[ci].branches
      nodes1 == IF NodeIndex(g.nodes, parentSha) = 0
                THEN Append(g.nodes, Placeholder(parentSha, inh))
                ELSE g.nodes
      pi     == NodeIndex(nodes1, parentSha)
      nodes2 == [nodes1 EXCEPT ![pi].childShas = AddUnique(@, childSha)]
  IN [ nodes |-> nodes2, links |-> PushLink(g.links, childSha, parentSha) ]

RECURSIVE LinkParents(_, _, _)
LinkParents(g, childSha, parents) ==
  IF parents = <<>> THEN g
  ELSE LinkParents(LinkParent(g, childSha, Head(parents)), childSha, Tail(parents))

\* pass 2: parent-child relationships, placeholders, links
RECURSIVE BuildRelationships(_, _)
BuildRelationships(g, commits) ==
  IF commits = <<>> THEN g
  ELSE BuildRelationships(LinkParents(g, Head(commits).sha, Head(commits).parents),
                          Tail(commits))

\* MergeBranches replacing the node's branches by the propagated ones
MergeBranchesOverwrite(existingBranches, branches) == branches

\* lines 191-196: the propagated branches are added to the node's own
MergeBranches(existingBranches, branches) == existingBranches \cup branches

\* pass 3: propagateBranchInfo(sha, branches) on the state
\* p = [nodes, visited, updates]; updates[id] counts the writes of
\* node.branches
RECURSIVE propagateBranchInfo(_, _, _)
RECURSIVE PropagateToParents(_, _, _)
propagateBranchInfo(p, sha, branches) ==
  IF sha \in p.visited \/ branches = {} THEN p
  ELSE LET i == NodeIndex(p.nodes, sha)
           v == p.visited \cup {sha}
       IN IF i = 0 THEN [p EXCEPT !.visited = v]
          ELSE LET p1 == [ nodes   |-> [p.nodes EXCEPT ![i].branches = MergeBranches(@, branches)],
                           visited |-> v,
                           updates |-> Append(p.updates, sha) ]
               IN PropagateToParents(p1, p.nodes[i].parentShas, branches)

PropagateToParents(p, parents, branches) ==
  IF parents = <<>> THEN p
  ELSE PropagateToParents(propagateBranchInfo(p, Head(parents), branches),
                          Tail(parents), branches)

\* "Propagate from commits we know are on branches": the Map is iterated in
\* insertion order, each node's branches read when its turn comes
RECURSIVE PropagateAll(_, _)
PropagateAll(p, k) ==
  IF k > Len(p.nodes) THEN p
  ELSE PropagateAll(IF p.nodes[k].branches # {}
                    THEN propagateBranchInfo(p, p.nodes[k].id, p.nodes[k].branches)
                    ELSE p,
                    k + 1)

\* SetFlags with the thresholds off by one
SetFlagsOffByOne(n) ==
  [n EXCEPT !.isMerge = Len(n.parentShas) >= 1, !.isSplit = Len(n.childShas) >= 1]

\* SetFlags with the two flags exchanged
SetFlagsSwapped(n) ==
  [n EXCEPT !.isMerge = Len(n.childShas) > 1, !.isSplit = Len(n.parentShas) > 1]

\* pass 4: merge/split flags
SetFlags(n) ==
  [n EXCEPT !.isMerge = Len(n.parentShas) > 1, !.isSplit = Len(n.childShas) > 1]

Propagated(commits, c2b) ==
  LET g == BuildRelationships([nodes |-> CreateNodes(commits, c2b, <<>>), links |-> <<>>],
                              commits)
  IN [ g |-> g,
       p |-> PropagateAll([nodes |-> g.nodes, visited |-> {}, updates |-> <<>>], 1) ]

buildGraphFromCommits(commits, c2b) ==
  LET r == Propagated(commits, c2b)
  IN [ nodes |-> [i \in DOMAIN r.p.nodes |-> SetFlags(r.p.nodes[i])],
       links |-> r.g.links ]

\* ---------------------------------------------------------- stats aggregator
\* graph.nodes.filter(...).length for the three filters of the stats
MergeCount(nodes) == Cardinality({i \in DOMAIN nodes : nodes[i].isMerge})
SplitCount(nodes) == Cardinality({i \in DOMAIN nodes : nodes[i].isSplit})
\* BranchCount leaving out the placeholder nodes
BranchCountFetched(nodes, b) ==
  Cardinality({i \in DOMAIN nodes : b \in nodes[i].branches /\ nodes[i].message # "(parent)"})

BranchCount(nodes, b) == Cardinality({i \in DOMAIN nodes : b \in nodes[i].branches})

\* Stats with totalCommits counting the fetched commits only
StatsFetchedOnly(g, tips) ==
  [ totalCommits |-> Cardinality({i \in DOMAIN g.nodes : g.nodes[i].message # "(parent)"}),
    pullRequests |-> MergeCount(g.nodes),
    splitCommits |-> SplitCount(g.nodes),
    authors      |-> Cardinality({g.nodes[i].author : i \in DOMAIN g.nodes} \ {""}),
    branchCounts |-> [b \in Range(tips) |-> BranchCount(g.nodes, b)] ]

Stats(g, tips) ==
  [ totalCommits |-> Len(g.nodes),
    pullRequests |-> MergeCount(g.nodes),
    splitCommits |-> SplitCount(g.nodes),
    authors      |-> Cardinality({g.nodes[i].author : i \in DOMAIN g.nodes} \ {""}),
    branchCounts |-> [b \in Range(tips) |-> BranchCount(g.nodes, b)] ]

\* ------------------------------------------------------------ error reporting
\* What a rejected github.get carries: the HTTP status of the response (Null
\* when there was none) and the axios error code.
Errors ==
  { [status |-> 404, code |-> "ERR_BAD_REQUEST"],
    [status |-> 403, code |-> "ERR_BAD_REQUEST"],
    [status |-> 401, code |-> "ERR_BAD_REQUEST"],
    [status |-> 500, code |-> "ERR_BAD_RESPONSE"],
    [status |-> Null, code |-> "ECONNABORTED"],
    [status |-> Null, code |-> "ERR_NETWORK"] }

\* ErrorResponse sending an empty graph along with the error
ErrorResponseWithGraph(err) ==
  [ kind   |-> "error",
    status |-> IF err.status # Null THEN err.status ELSE 500,
    body   |-> [ error |-> "Failed to fetch graph", details |-> "err.message",
                 graph |-> [nodes |-> <<>>, links |-> <<>>] ] ]

\* ErrorResponse looking for the timeout under the code ETIMEDOUT
ErrorResponseOtherCode(err) ==
  LET msg == IF err.status # Null
             THEN (IF err.status = 404 THEN "Repository not found"
                   ELSE IF err.status = 403 THEN "GitHub API rate limit exceeded"
                   ELSE IF err.status = 401 THEN "GitHub authentication failed"
                   ELSE "Failed to fetch graph")
             ELSE IF err.code = "ETIMEDOUT" THEN "Request timed out"
             ELSE "Failed to fetch graph"
  IN [ kind   |-> "error",
       status |-> IF err.status # Null THEN err.status ELSE 500,
       body   |-> [error |-> msg, details |-> "err.message"] ]

\* the catch block of the handler
ErrorResponse(err) ==
  LET msg == IF err.status # Null
             THEN (IF err.status = 404 THEN "Repository not found"
                   ELSE IF err.status = 403 THEN "GitHub API rate limit exceeded"
                   ELSE IF err.status = 401 THEN "GitHub authentication failed"
                   ELSE "Failed to fetch graph")
             ELSE IF err.code = "ECONNABORTED" THEN "Request timed out"
             ELSE "Failed to fetch graph"
      det == IF err.status # Null
             THEN (IF err.status = 404 THEN "Please check the username and repository name"
                   ELSE IF err.status = 403 THEN "Please add a GITHUB_TOKEN to your .env file or wait an hour"
                   ELSE IF err.status = 401 THEN "Check your GITHUB_TOKEN in .env file"
                   ELSE "err.message")
             ELSE IF err.code = "ECONNABORTED"
             THEN "This repository might be too large. Try reducing maxCommits or use a smaller repo."
             ELSE "err.message"
  IN [ kind   |-> "error",
       status |-> IF err.status # Null THEN err.status ELSE 500,
       body   |-> [error |-> msg, details |-> det] ]

\* res.json(payload)
OkResponse(payload) == [kind |-> "ok", status |-> 200, body |-> payload]

NoResponse == [kind |-> "none"]
NoError == [status |-> Null, code |-> ""]
NoPayload == [empty |-> TRUE]

\* --------------------------------------------------------------------- state
VARIABLES
  hist,                    \* index of the provider's history
  maxCommits,              \* the maxCommits query parameter
  reqNo,                   \* number of the request being served
  cache,                   \* the cache entry of this (owner, repo, maxCommits)
  pc,                      \* where the handler is
  response,                \* what the handler sent
  failed,                  \* the remote calls of this request that failed
  branches,                \* fetchBranches result (names)
  defaultBranch,
  branchTips,
  allCommits,              \* shas, in acceptance order
  seen,
  commitToBranches,
  perBranchCounts,
  remainingGlobalCommits,
  branchIndex,             \* 1-based position in branchTips
  branchCommitCount,
  page,
  branchSawExistingSHA,
  pageData,
  pos,                     \* 1-based position of the for loop in pageData
  requested,               \* pages requested so far: <<branch, page>>
  epSeen,                  \* ensureParents: keys of the seen Map, in order
  parentsToFetch,
  epI,                     \* ensureParents: i of the batch loop
  fetched,
  pending,                 \* getCommit calls of the batch still outstanding
  results,                 \* outcome of the completed calls of the batch
  getCalls,                \* shas requested by ensureParents, in order
  failedShas,              \* shas whose getCommit call failed
  first,                   \* the first build sent, with the provider's
                           \* outcomes it saw (recorded under SpecTwice only)
  thrown                   \* the error that reached the catch block

vars == << hist, maxCommits, reqNo, cache, pc, response, failed, branches,
           defaultBranch, branchTips, allCommits, seen, commitToBranches,
           perBranchCounts, remainingGlobalCommits, branchIndex,
           branchCommitCount, page, branchSawExistingSHA, pageData, pos,
           requested, epSeen, parentsToFetch, epI, fetched, pending, results,
           getCalls, failedShas, first, thrown >>

rankVars == << branches, defaultBranch, branchTips >>
collectVars == << allCommits, seen, commitToBranches, perBranchCounts,
                  remainingGlobalCommits, branchIndex, branchCommitCount, page,
                  branchSawExistingSHA, pageData, pos, requested >>
epVars == << epSeen, parentsToFetch, epI, fetched, pending, results, getCalls,
             failedShas >>
envVars == << hist, maxCommits, reqNo, first >>

H == Histories[hist]
EmptyMap == [x \in {} |-> {}]

\* the locals of a request before the handler has run
FreshRequest ==
  /\ pc = "start"
  /\ response = NoResponse
  /\ thrown = NoError
  /\ failed = {}
  /\ branches = <<>>
  /\ defaultBranch = NullName
  /\ branchTips = <<>>
  /\ allCommits = <<>>
  /\ seen = {}
  /\ commitToBranches = EmptyMap
  /\ perBranchCounts = EmptyMap
  /\ remainingGlobalCommits = 0
  /\ branchIndex = 1
  /\ branchCommitCount = 0
  /\ page = 1
  /\ branchSawExistingSHA = FALSE
  /\ pageData = <<>>
  /\ pos = 1
  /\ requested = <<>>
  /\ epSeen = <<>>
  /\ parentsToFetch = <<>>
  /\ epI = 0
  /\ fetched = 0
  /\ pending = {}
  /\ results = EmptyMap
  /\ getCalls = <<>>
  /\ failedShas = {}

Init ==
  /\ hist \in DOMAIN Histories
  /\ maxCommits \in (0..MaxCommits) \cup (IF hist = 8 THEN {10} ELSE {})
  /\ reqNo = 1
  /\ cache = NoPayload
  /\ first = NoPayload
  /\ FreshRequest

\* ------------------------------------------------------------------- handler
\* the thrown error reaches the catch block, which answers
Throw(err, call) ==
  /\ response' = ErrorResponse(err)
  /\ thrown' = err
  /\ failed' = failed \cup {call}
  /\ pc' = "done"

\* lines 225-233: cache lookup, then the listBranches request is issued
Start ==
  /\ pc = "start"
  /\ IF cache # NoPayload
     THEN /\ response' = OkResponse(cache)
          /\ pc' = "done"
     ELSE /\ pc' = "fetchBranches"
          /\ UNCHANGED response
  /\ UNCHANGED << envVars, cache, thrown, failed, rankVars, collectVars, epVars >>

\* lines 63-66, 233: fetchBranches answers
FetchBranchesOk ==
  /\ pc = "fetchBranches"
  /\ branches' = H.listed
  /\ pc' = "fetchDefault"
  /\ UNCHANGED << envVars, cache, response, thrown, failed, defaultBranch, branchTips,
                  collectVars, epVars >>

FetchBranchesFail ==
  /\ pc = "fetchBranches"
  /\ \E err \in Errors : Throw(err, "listBranches")
  /\ UNCHANGED << envVars, cache, rankVars, collectVars, epVars >>

\* lines 236-243, 259: fetchDefaultBranch; a failure is caught and gives null
FetchDefaultBranch ==
  /\ pc = "fetchDefault"
  /\ \/ /\ defaultBranch' = H.default
        /\ UNCHANGED failed
     \/ /\ defaultBranch' = NullName
        /\ failed' = failed \cup {"defaultBranch"}
  /\ pc' = "branchInfos"
  /\ UNCHANGED << envVars, cache, response, thrown, branches, branchTips, collectVars, epVars >>

\* lines 246-256: the latest commit date of a branch, null when the lookup
\* failed
getBranchLatestCommitDate(name, lost) ==
  IF name \in lost THEN Null ELSE Commit(H, H.tips[name]).date

\* lines 260-300: the recency lookups of all branches complete (lost: the
\* branches whose lookup failed), then the ranking and the set-up of the
\* collection
RankBranches ==
  /\ pc = "branchInfos"
  /\ \E lost \in SUBSET Range(branches) :
       LET branchInfos == [i \in DOMAIN branches |->
                             [name |-> branches[i],
                              latestDate |-> getBranchLatestCommitDate(branches[i], lost)]]
       IN /\ branchTips' = SelectBranches(branchInfos, defaultBranch)
          /\ failed' = IF lost = {} THEN failed ELSE failed \cup {"latestCommit"}
  /\ allCommits' = <<>>
  /\ seen' = {}
  /\ commitToBranches' = EmptyMap
  /\ perBranchCounts' = EmptyMap
  /\ remainingGlobalCommits' = maxCommits
  /\ branchIndex' = 1
  /\ pc' = "forBranch"
  /\ UNCHANGED << envVars, cache, response, thrown, branches, defaultBranch,
                  branchCommitCount, page, branchSawExistingSHA, pageData, pos,
                  requested, epVars >>

\* branchName walking branchTips from its end
branchNameReversed == branchTips[Len(branchTips) + 1 - branchIndex]

branchName == branchTips[branchIndex]
branchQuota == BranchQuota(maxCommits, branchTips, branchIndex)

\* lines 308-320: the head of the for loop over branchTips
ForBranch ==
  /\ pc = "forBranch"
  /\ branchIndex <= Len(branchTips)
  /\ perBranchCounts' = (branchName :> 0) @@ perBranchCounts
  /\ branchCommitCount' = 0
  /\ page' = 1
  /\ branchSawExistingSHA' = FALSE
  /\ pc' = "whileTop"
  /\ UNCHANGED << envVars, cache, response, thrown, failed, rankVars, allCommits, seen,
                  commitToBranches, remainingGlobalCommits, branchIndex,
                  pageData, pos, requested, epVars >>

\* the loop of a branch is left: on to the next branch
EndBranch ==
  /\ branchIndex' = branchIndex + 1
  /\ pc' = "forBranch"

\* lines 322-338: the checks at the top of the while loop; the page request
\* is issued when both pass
WhileTop ==
  /\ pc = "whileTop"
  /\ IF branchCommitCount >= branchQuota \/ remainingGlobalCommits <= 0
     THEN /\ EndBranch
          /\ UNCHANGED requested
     ELSE /\ requested' = Append(requested, <<branchName, page>>)
          /\ pc' = "awaitPage"
          /\ UNCHANGED branchIndex
  /\ UNCHANGED << envVars, cache, response, thrown, failed, rankVars, allCommits, seen,
                  commitToBranches, perBranchCounts, remainingGlobalCommits,
                  branchCommitCount, page, branchSawExistingSHA, pageData, pos,
                  epVars >>

\* lines 336-340: the page arrives
PageOk ==
  /\ pc = "awaitPage"
  /\ pageData' = PageOf(H, branchName, page)
  /\ IF pageData' = <<>>
     THEN /\ EndBranch
          /\ UNCHANGED pos
     ELSE /\ pos' = 1
          /\ pc' = "forCommit"
          /\ UNCHANGED branchIndex
  /\ UNCHANGED << envVars, cache, response, thrown, failed, rankVars, allCommits, seen,
                  commitToBranches, perBranchCounts, remainingGlobalCommits,
                  branchCommitCount, page, branchSawExistingSHA, requested,
                  epVars >>

\* PageFail with the failure swallowed: the page counts as empty
PageFailSwallowed ==
  /\ pc = "awaitPage"
  /\ failed' = failed \cup {"listCommits"}
  /\ pageData' = <<>>
  /\ EndBranch
  /\ UNCHANGED << envVars, cache, response, thrown, rankVars, allCommits, seen,
                  commitToBranches, perBranchCounts, remainingGlobalCommits,
                  branchCommitCount, page, branchSawExistingSHA, pos, requested,
                  epVars >>

\* PageFail with the error body stored in the cache
PageFailCached ==
  /\ pc = "awaitPage"
  /\ \E err \in Errors :
       /\ Throw(err, "listCommits")
       /\ cache' = ErrorResponse(err).body
  /\ UNCHANGED << envVars, rankVars, collectVars, epVars >>

\* line 336: the page request fails; nothing catches it before the handler's
\* catch block
PageFail ==
  /\ pc = "awaitPage"
  /\ \E err \in Errors : Throw(err, "listCommits")
  /\ UNCHANGED << envVars, cache, rankVars, collectVars, epVars >>

\* CanAccept asking for room for one commit more than needed
CanAcceptStrict == branchCommitCount + 1 < branchQuota /\ remainingGlobalCommits > 0

\* line 355: the headroom test guarding the acceptance of a new commit
CanAccept == branchCommitCount < branchQuota /\ remainingGlobalCommits > 0

\* AcceptCommit without the updates of the counters
AcceptCommitUncounted(c, sha, name) ==
  [c EXCEPT !.allCommits = Append(@, sha), !.seen = @ \cup {sha}]

\* AcceptCommit without the decrement of the global counter
AcceptCommitNoGlobal(c, sha, name) ==
  [ allCommits             |-> Append(c.allCommits, sha),
    seen                   |-> c.seen \cup {sha},
    perBranchCounts        |-> [c.perBranchCounts EXCEPT ![name] = @ + 1],
    branchCommitCount      |-> c.branchCommitCount + 1,
    remainingGlobalCommits |-> c.remainingGlobalCommits ]

\* AcceptCommit taking two units of the global counter
AcceptCommitTwice(c, sha, name) ==
  [ allCommits             |-> Append(c.allCommits, sha),
    seen                   |-> c.seen \cup {sha},
    perBranchCounts        |-> [c.perBranchCounts EXCEPT ![name] = @ + 1],
    branchCommitCount      |-> c.branchCommitCount + 1,
    remainingGlobalCommits |-> c.remainingGlobalCommits - 2 ]

\* lines 356-360: a new commit is accepted under the branch
AcceptCommit(c, sha, name) ==
  [ allCommits             |-> Append(c.allCommits, sha),
    seen                   |-> c.seen \cup {sha},
    perBranchCounts        |-> [c.perBranchCounts EXCEPT ![name] = @ + 1],
    branchCommitCount      |-> c.branchCommitCount + 1,
    remainingGlobalCommits |-> c.remainingGlobalCommits - 1 ]

\* lines 343-374: one iteration of the for loop over pageData
ForCommit ==
  /\ pc = "forCommit"
  /\ LET sha == pageData[pos]
         alreadySeen == sha \in seen
         existingSet == IF sha \in DOMAIN commitToBranches
                        THEN commitToBranches[sha] ELSE {}
         c == [ allCommits             |-> allCommits,
                seen                   |-> seen,
                perBranchCounts        |-> perBranchCounts,
                branchCommitCount      |-> branchCommitCount,
                remainingGlobalCommits |-> remainingGlobalCommits ]
         d == IF ~alreadySeen /\ CanAccept THEN AcceptCommit(c, sha, branchName) ELSE c
     IN /\ commitToBranches' =
             (sha :> (existingSet \cup {branchName})) @@ commitToBranches
        /\ allCommits' = d.allCommits
        /\ seen' = d.seen
        /\ perBranchCounts' = d.perBranchCounts
        /\ branchCommitCount' = d.branchCommitCount
        /\ remainingGlobalCommits' = d.remainingGlobalCommits
        /\ branchSawExistingSHA' = (branchSawExistingSHA \/ alreadySeen)
  /\ IF \/ branchCommitCount' >= branchQuota
        \/ remainingGlobalCommits' <= 0
        \/ pos = Len(pageData)
     THEN pc' = "afterPage" /\ UNCHANGED pos
     ELSE pc' = "forCommit" /\ pos' = pos + 1
  /\ UNCHANGED << envVars, cache, response, thrown, failed, rankVars, branchIndex, page,
                  pageData, requested, epVars >>

\* AfterPage without the stop at shared history
AfterPageIgnoresShared ==
  /\ pc = "afterPage"
  /\ IF \/ branchCommitCount >= branchQuota
        \/ Len(pageData) < PerPage
     THEN /\ EndBranch
          /\ UNCHANGED page
     ELSE /\ page' = page + 1
          /\ pc' = "whileTop"
          /\ UNCHANGED branchIndex
  /\ UNCHANGED << envVars, cache, response, thrown, failed, rankVars, allCommits, seen,
                  commitToBranches, perBranchCounts, remainingGlobalCommits,
                  branchCommitCount, branchSawExistingSHA, pageData, pos,
                  requested, epVars >>

\* lines 376-392: the checks after a page
AfterPage ==
  /\ pc = "afterPage"
  /\ IF \/ branchCommitCount >= branchQuota
        \/ branchSawExistingSHA
        \/ Len(pageData) < PerPage
     THEN /\ EndBranch
          /\ UNCHANGED page
     ELSE /\ page' = page + 1
          /\ pc' = "whileTop"
          /\ UNCHANGED branchIndex
  /\ UNCHANGED << envVars, cache, response, thrown, failed, rankVars, allCommits, seen,
                  commitToBranches, perBranchCounts, remainingGlobalCommits,
                  branchCommitCount, branchSawExistingSHA, pageData, pos,
                  requested, epVars >>

\* --------------------------------------------------------- ancestor expander
\* lines 401-404: uniqueBySha, the Map's keys in first-insertion order
RECURSIVE UniqueBySha(_, _)
UniqueBySha(shas, acc) ==
  IF shas = <<>> THEN acc
  ELSE UniqueBySha(Tail(shas), AddUnique(acc, Head(shas)))

\* lines 75-86: the parent shas of the initial commits that are not among them
RECURSIVE AddMissing(_, _, _)
AddMissing(parents, known, missing) ==
  IF parents = <<>> THEN missing
  ELSE AddMissing(Tail(parents), known,
                  IF Has(known, Head(parents)) THEN missing
                  ELSE AddUnique(missing, Head(parents)))

RECURSIVE MissingParents(_, _, _)
MissingParents(initial, known, missing) ==
  IF initial = <<>> THEN missing
  ELSE MissingParents(Tail(initial), known,
                      AddMissing(Commit(H, Head(initial)).parents, known, missing))

\* ParentsToFetch without the slice
ParentsToFetchUncapped(initial, maxFetch) ==
  MissingParents(initial, UniqueBySha(initial, <<>>), <<>>)

\* line 89
ParentsToFetch(initial, maxFetch) ==
  Take(MissingParents(initial, UniqueBySha(initial, <<>>), <<>>), Min(maxFetch, ParentCap))

\* line 94
Batch(toFetch, i) == SubSeq(toFetch, i + 1, Min(i + batchSize, Len(toFetch)))

\* lines 107-112: the results of a batch, in the order of the batch
RECURSIVE FoldResults(_, _, _)
FoldResults(batch, res, st) ==
  IF batch = <<>> THEN st
  ELSE FoldResults(Tail(batch), res,
                   IF res[Head(batch)] = "ok" /\ ~Has(st.seen, Head(batch))
                   THEN [seen |-> Append(st.seen, Head(batch)), fetched |-> st.fetched + 1]
                   ELSE st)

\* lines 398-408 and 70-89: the for loop over branchTips is over; the commits
\* are deduplicated and ensureParents starts
StartEnsureParents ==
  /\ pc = "forBranch"
  /\ branchIndex > Len(branchTips)
  /\ LET uniqueCommits == UniqueBySha(allCommits, <<>>)
     IN /\ epSeen' = UniqueBySha(uniqueCommits, <<>>)
        /\ parentsToFetch' = ParentsToFetch(uniqueCommits, MAX_PARENT_FETCH)
  /\ epI' = 0
  /\ fetched' = 0
  /\ pending' = {}
  /\ results' = EmptyMap
  /\ getCalls' = <<>>
  /\ failedShas' = {}
  /\ pc' = "batchLoop"
  /\ UNCHANGED << envVars, cache, response, thrown, failed, rankVars, collectVars >>

\* lines 93-103: the head of the batch loop; the getCommit calls of a batch
\* are issued together
StartBatch ==
  /\ pc = "batchLoop"
  /\ epI < Len(parentsToFetch)
  /\ pending' = Range(Batch(parentsToFetch, epI))
  /\ results' = EmptyMap
  /\ getCalls' = getCalls \o Batch(parentsToFetch, epI)
  /\ pc' = "awaitBatch"
  /\ UNCHANGED << envVars, cache, response, thrown, failed, rankVars, collectVars,
                  epSeen, parentsToFetch, epI, fetched, failedShas >>

\* GetCommitOk storing the commit in seen as soon as its call answers
GetCommitOkStoresAtOnce ==
  /\ pc = "awaitBatch"
  /\ \E sha \in pending :
       /\ pending' = pending \ {sha}
       /\ results' = (sha :> "ok") @@ results
       /\ epSeen' = AddUnique(epSeen, sha)
  /\ UNCHANGED << envVars, cache, pc, response, thrown, failed, rankVars, collectVars,
                  parentsToFetch, epI, fetched, getCalls, failedShas >>

\* lines 96-98: one getCommit call answers
GetCommitOk ==
  /\ pc = "awaitBatch"
  /\ \E sha \in pending :
       /\ pending' = pending \ {sha}
       /\ results' = (sha :> "ok") @@ results
  /\ UNCHANGED << envVars, cache, pc, response, thrown, failed, rankVars, collectVars,
                  epSeen, parentsToFetch, epI, fetched, getCalls, failedShas >>

\* GetCommitFail without the try/catch around the call: the error reaches
\* the handler's catch block
GetCommitFailThrows ==
  /\ pc = "awaitBatch"
  /\ \E sha \in pending :
       /\ pending' = pending \ {sha}
       /\ results' = (sha :> "null") @@ results
       /\ failedShas' = failedShas \cup {sha}
  /\ \E err \in Errors : Throw(err, "getCommit")
  /\ UNCHANGED << envVars, cache, rankVars, collectVars,
                  epSeen, parentsToFetch, epI, fetched, getCalls >>

\* lines 99-102: one getCommit call fails; the failure is caught and gives null
GetCommitFail ==
  /\ pc = "awaitBatch"
  /\ \E sha \in pending :
       /\ pending' = pending \ {sha}
       /\ results' = (sha :> "null") @@ results
       /\ failedShas' = failedShas \cup {sha}
  /\ failed' = failed \cup {"getCommit"}
  /\ UNCHANGED << envVars, cache, pc, response, thrown, rankVars, collectVars,
                  epSeen, parentsToFetch, epI, fetched, getCalls >>

\* lines 105-115: Promise.all resolves; the results are folded into seen
EndBatch ==
  /\ pc = "awaitBatch"
  /\ pending = {}
  /\ LET st == FoldResults(Batch(parentsToFetch, epI), results,
                           [seen |-> epSeen, fetched |-> fetched])
     IN /\ epSeen' = st.seen
        /\ fetched' = st.fetched
        /\ IF st.fetched >= MAX_PARENT_FETCH
           THEN pc' = "build" /\ UNCHANGED epI
           ELSE pc' = "batchLoop" /\ epI' = epI + batchSize
  /\ UNCHANGED << envVars, cache, response, thrown, failed, rankVars, collectVars,
                  parentsToFetch, pending, results, getCalls, failedShas >>

\* line 117: the batch loop is over, ensureParents returns
ReturnExpanded ==
  /\ pc = "batchLoop"
  /\ epI >= Len(parentsToFetch)
  /\ pc' = "build"
  /\ UNCHANGED << envVars, cache, response, thrown, failed, rankVars, collectVars, epVars >>

\* ------------------------------------------------------------------ response
expandedCommits == [i \in DOMAIN epSeen |-> Commit(H, epSeen[i])]

\* lines 410-438
Payload ==
  LET graph == buildGraphFromCommits(expandedCommits, commitToBranches)
  IN [ meta  |-> [ defaultBranch    |-> defaultBranch,
                   fetchedBranches  |-> Len(branchTips),
                   commits          |-> Len(UniqueBySha(allCommits, <<>>)),
                   selectedBranches |-> branchTips,
                   perBranchCounts  |-> perBranchCounts,
                   stats            |-> Stats(graph, branchTips) ],
       graph |-> graph ]

\* Build with cache.set placed before the loop that fills stats.branchCounts
BuildCachedEarly ==
  /\ pc = "build"
  /\ cache' = [Payload EXCEPT !.meta.stats.branchCounts = EmptyMap]
  /\ response' = OkResponse(Payload)
  /\ pc' = "done"
  /\ UNCHANGED << hist, maxCommits, reqNo, thrown, failed, rankVars, collectVars, epVars >>

\* lines 410-441: graph, stats and payload; the payload is cached and sent
Build ==
  /\ pc = "build"
  /\ cache' = Payload
  /\ response' = OkResponse(Payload)
  /\ pc' = "done"
  /\ UNCHANGED << hist, maxCommits, reqNo, thrown, failed, rankVars, collectVars, epVars >>

BuildAndRespond == Build /\ UNCHANGED first

\* the outcomes of the provider calls a build rests on: the default branch,
\* the ranked branches and the getCommit calls that failed
Outcomes ==
  [ defaultBranch |-> defaultBranch, branchTips |-> branchTips,
    failedShas |-> failedShas ]

\* the same step, remembering the first build sent with its outcomes, and
\* the outcomes of the build whose payload the cache now holds
BuildAndRecord ==
  /\ Build
  /\ first' = IF first = NoPayload
              THEN [ req |-> reqNo, body |-> response'.body,
                     outcomes |-> Outcomes, cached |-> Outcomes ]
              ELSE [ first EXCEPT !.cached = Outcomes ]

\* the next request for the same owner, repo and maxCommits
NewRequest ==
  /\ pc = "done"
  /\ reqNo < MaxRequests
  /\ reqNo' = reqNo + 1
  /\ pc' = "start"
  /\ response' = NoResponse
  /\ thrown' = NoError
  /\ failed' = {}
  /\ branches' = <<>>
  /\ defaultBranch' = NullName
  /\ branchTips' = <<>>
  /\ allCommits' = <<>>
  /\ seen' = {}
  /\ commitToBranches' = EmptyMap
  /\ perBranchCounts' = EmptyMap
  /\ remainingGlobalCommits' = 0
  /\ branchIndex' = 1
  /\ branchCommitCount' = 0
  /\ page' = 1
  /\ branchSawExistingSHA' = FALSE
  /\ pageData' = <<>>
  /\ pos' = 1
  /\ requested' = <<>>
  /\ epSeen' = <<>>
  /\ parentsToFetch' = <<>>
  /\ epI' = 0
  /\ fetched' = 0
  /\ pending' = {}
  /\ results' = EmptyMap
  /\ getCalls' = <<>>
  /\ failedShas' = {}
  /\ UNCHANGED << hist, maxCommits, cache, first >>

\* line 60: the entry's TTL runs out
CacheExpire ==
  /\ cache # NoPayload
  /\ cache' = NoPayload
  /\ UNCHANGED << envVars, pc, response, thrown, failed, rankVars, collectVars, epVars >>

\* every step of the handler but the last one of a successful build
Handler ==
  \/ Start
  \/ FetchBranchesOk
  \/ FetchBranchesFail
  \/ FetchDefaultBranch
  \/ RankBranches
  \/ ForBranch
  \/ WhileTop
  \/ PageOk
  \/ PageFail
  \/ ForCommit
  \/ AfterPage
  \/ StartEnsureParents
  \/ StartBatch
  \/ GetCommitOk
  \/ GetCommitFail
  \/ EndBatch
  \/ ReturnExpanded
  \/ NewRequest
  \/ CacheExpire

Next ==
  \/ Handler
  \/ BuildAndRespond

Spec == Init /\ [][Next]_vars

\* the same handler with the first build recorded, to compare builds
NextTwice ==
  \/ Handler
  \/ BuildAndRecord

SpecTwice == Init /\ [][NextTwice]_vars

\* ==================================================================== claims
Ok == response.kind = "ok"
graph == response.body.graph
meta == response.body.meta
NodeIds(g) == {g.nodes[i].id : i \in DOMAIN g.nodes}
NodeOf(g, id) == g.nodes[NodeIndex(g.nodes, id)]
IsPlaceholder(n) == n.message = "(parent)"

\* the ids reached from a set of ids by following parentShas
RECURSIVE GraphReach(_, _, _)
GraphReach(g, frontier, acc) ==
  LET f == frontier \cap NodeIds(g)
  IN IF f = {} THEN acc
     ELSE GraphReach(g,
                     UNION {Range(NodeOf(g, id).parentShas) : id \in f} \ (acc \cup f),
                     acc \cup f)

AncestorsOf(g, n) == GraphReach(g, Range(n.parentShas), {})

\* C1: in every returned graph the source and the target of every link are
\* ids of nodes of the graph.
C1_LinkEndpointsAreNodes ==
  Ok => \A i \in DOMAIN graph.links :
          /\ graph.links[i].source \in NodeIds(graph)
          /\ graph.links[i].target \in NodeIds(graph)

\* a graph was returned although an ancestor fetch failed, and a link ends
\* at a placeholder
C1_Witness ==
  /\ Ok
  /\ "getCommit" \in failed
  /\ \E i \in DOMAIN graph.links :
       /\ graph.links[i].target \in NodeIds(graph)
       /\ IsPlaceholder(NodeOf(graph, graph.links[i].target))

\* C2: in every returned graph, for nodes A and B of the graph, A is in
\* B.parentShas iff B is in A.childShas.
C2_Bidirectional ==
  Ok => \A i, j \in DOMAIN graph.nodes :
          Has(graph.nodes[j].parentShas, graph.nodes[i].id)
            <=> Has(graph.nodes[i].childShas, graph.nodes[j].id)

\* a returned graph with a placeholder that has a child and a node with two
\* children
C2_Witness ==
  /\ Ok
  /\ \E i \in DOMAIN graph.nodes :
       IsPlaceholder(graph.nodes[i]) /\ Len(graph.nodes[i].childShas) >= 1
  /\ \E i \in DOMAIN graph.nodes : Len(graph.nodes[i].childShas) >= 2

\* C3: in every returned graph, every node reachable by parentShas from a
\* node that carries branch B carries B too.
C3_AncestorsCarryBranch ==
  Ok => \A i \in DOMAIN graph.nodes :
          \A a \in AncestorsOf(graph, graph.nodes[i]) :
            graph.nodes[i].branches \subseteq NodeOf(graph, a).branches

\* C4: at every point of the collection the number of commits accepted into
\* the working set, over all branches, is at most maxCommits.
RECURSIVE SumCounts(_, _)
SumCounts(counts, names) ==
  IF names = {} THEN 0
  ELSE LET n == CHOOSE x \in names : TRUE
       IN counts[n] + SumCounts(counts, names \ {n})

C4_QuotaLaw ==
  /\ Len(allCommits) <= maxCommits
  /\ SumCounts(perBranchCounts, DOMAIN perBranchCounts) <= maxCommits
  /\ Cardinality(seen) <= maxCommits

\* the whole budget was used, by two branches or more, while the provider
\* had more commits to give
C4_Witness ==
  /\ pc = "afterPage"
  /\ branchIndex >= 2
  /\ maxCommits >= 2
  /\ Len(allCommits) = maxCommits
  /\ Len(allCommits) < Len(H.parents)

\* C5: in every returned graph no two links have the same (source, target)
\* and no two nodes the same id, also for a commit record that names the
\* same parent twice.
C5_NoDuplicates ==
  Ok => /\ \A i, j \in DOMAIN graph.links :
             graph.links[i] = graph.links[j] => i = j
        /\ \A i, j \in DOMAIN graph.nodes :
             graph.nodes[i].id = graph.nodes[j].id => i = j

\* C6: in every returned graph every node, commit or placeholder, has
\* isMerge = (more than one parentShas) and isSplit = (more than one
\* childShas).
C6_MergeSplitFlags ==
  Ok => \A i \in DOMAIN graph.nodes :
          /\ graph.nodes[i].isMerge = (Len(graph.nodes[i].parentShas) > 1)
          /\ graph.nodes[i].isSplit = (Len(graph.nodes[i].childShas) > 1)

\* a returned graph with a merge commit and a placeholder that is a split
C6_Witness ==
  /\ Ok
  /\ \E i \in DOMAIN graph.nodes : graph.nodes[i].isMerge
  /\ \E i \in DOMAIN graph.nodes :
       IsPlaceholder(graph.nodes[i]) /\ graph.nodes[i].isSplit

\* C7: when the provider's parent relation is acyclic, following parentShas
\* from a node of the returned graph never comes back to it.
GraphAcyclic(g) ==
  \A i \in DOMAIN g.nodes : g.nodes[i].id \notin AncestorsOf(g, g.nodes[i])

C7_AcyclicGraph == (Ok /\ HistoryAcyclic(H)) => GraphAcyclic(graph)

\* a graph built from an acyclic history, with a merge commit and a fetched
\* ancestor
C7_Witness ==
  /\ Ok
  /\ HistoryAcyclic(H)
  /\ fetched >= 1
  /\ \E i \in DOMAIN graph.nodes : Len(graph.nodes[i].parentShas) >= 2

\* C8: in every successful response each name of meta.selectedBranches is in
\* the branches of some node of the graph.
C8_SelectedBranchesAppear ==
  Ok => \A b \in Range(meta.selectedBranches) :
          \E i \in DOMAIN graph.nodes : b \in graph.nodes[i].branches

\* C9 as stated: a failure of the default-branch lookup, of a latest-commit
\* lookup or of a listCommits page ends the request with an error.
C9_RankingFailureFatal ==
  (pc = "done" /\ failed \cap {"defaultBranch", "latestCommit", "listCommits"} # {})
    => response.kind = "error"

\* C9 amended: a failed listCommits page ends the request with an error and
\* no graph; a failed default-branch or latest-commit lookup does not: with
\* no listBranches or listCommits failure the request ends with a graph.
C9_CollectionFailureFatal ==
  /\ (pc = "done" /\ "listCommits" \in failed) => response.kind = "error"
  /\ (pc = "done" /\ failed \cap {"listBranches", "listCommits"} = {}) => Ok
  /\ (pc # "done" /\ failed \cap {"listBranches", "listCommits"} = {})
       => response = NoResponse

\* the default-branch lookup and a latest-commit lookup failed and a graph
\* was returned all the same
C9_Witness ==
  /\ pc = "done"
  /\ {"defaultBranch", "latestCommit"} \subseteq failed
  /\ Ok
  /\ graph.nodes # <<>>

\* C10: when listBranches or a listCommits page failed, the response carries
\* an error message and a detail string and nothing else: no graph, no meta.
C10_NoPartialGraph ==
  (pc = "done" /\ failed \cap {"listBranches", "listCommits"} # {})
    => /\ response.kind = "error"
       /\ DOMAIN response.body = {"error", "details"}

\* a listCommits page failed after commits had been collected
C10_Witness ==
  /\ pc = "done"
  /\ "listCommits" \in failed
  /\ Len(allCommits) >= 2
  /\ response.kind = "error"

\* C11: whatever getCommit calls fail, the request ends with a graph, and
\* every id whose call failed is a node of the graph with empty author,
\* empty date and empty parentShas.
C11_FailedParentsArePlaceholders ==
  (pc = "done" /\ failedShas # {})
    => /\ Ok
       /\ \A sha \in failedShas :
            /\ sha \in NodeIds(graph)
            /\ NodeOf(graph, sha).author = ""
            /\ NodeOf(graph, sha).date = Null
            /\ NodeOf(graph, sha).parentShas = <<>>

\* two calls failed, one of the same request succeeded, a graph was returned
C11_Witness ==
  /\ pc = "done"
  /\ Ok
  /\ Cardinality(failedShas) >= 2
  /\ fetched >= 1

\* the parents of the expanded commits that are not among them
UnfetchedParents ==
  UNION {Range(Commit(H, epSeen[i]).parents) : i \in DOMAIN epSeen} \ Range(epSeen)

\* the commit whose parent loop creates the placeholder of p: the first of
\* the expanded commits that names p as a parent
FirstChild(p) ==
  epSeen[CHOOSE i \in DOMAIN epSeen :
           /\ Has(Commit(H, epSeen[i]).parents, p)
           /\ \A j \in 1..(i-1) : ~Has(Commit(H, epSeen[j]).parents, p)]

\* the branches that child has when the placeholder is created: those the
\* collector recorded for it
InheritedBranches(p) ==
  IF FirstChild(p) \in DOMAIN commitToBranches
  THEN commitToBranches[FirstChild(p)] ELSE {}

\* C12 as stated: the placeholder of a parent that was never fetched has an
\* empty author, an empty message and exactly the branches inherited from
\* the child that first referenced it.
C12_PlaceholderExactBranches ==
  (pc = "done" /\ Ok) =>
    \A p \in UnfetchedParents :
      /\ p \in NodeIds(graph)
      /\ NodeOf(graph, p).author = ""
      /\ NodeOf(graph, p).message = ""
      /\ NodeOf(graph, p).branches = InheritedBranches(p)

\* C12 amended: the placeholder has an empty author, the message "(parent)"
\* and at least the branches inherited from the child that first referenced
\* it; propagation may add branches of other nodes.
C12_PlaceholderInheritsBranches ==
  (pc = "done" /\ Ok) =>
    \A p \in UnfetchedParents :
      /\ p \in NodeIds(graph)
      /\ NodeOf(graph, p).author = ""
      /\ NodeOf(graph, p).message = "(parent)"
      /\ InheritedBranches(p) \subseteq NodeOf(graph, p).branches

\* a placeholder that inherited a branch from its first child and got
\* another one by propagation
C12_Witness ==
  /\ pc = "done"
  /\ Ok
  /\ \E p \in UnfetchedParents :
       /\ InheritedBranches(p) # {}
       /\ InheritedBranches(p) # NodeOf(graph, p).branches

\* C12, the branches alone: a placeholder has exactly the inherited branches
C12_BranchesOnlyFromFirstChild ==
  (pc = "done" /\ Ok) =>
    \A p \in UnfetchedParents :
      NodeOf(graph, p).branches = InheritedBranches(p)

\* C13: the cache entry is written only by the step that ends a request
\* with a graph, after ranking, collection, expansion, assembly and stats
\* (it then holds the payload sent); a step that ends a request with an
\* error leaves the cache as it was.
C13_CacheOnlyAfterSuccess ==
  [][ /\ (cache' # cache /\ cache' # NoPayload)
         => /\ pc = "build"
            /\ pc' = "done"
            /\ failed \cap {"listBranches", "listCommits"} = {}
            /\ response'.kind = "ok"
            /\ cache' = response'.body
            /\ cache'.meta.stats = Stats(cache'.graph, branchTips)
      /\ (pc # "done" /\ pc' = "done" /\ response'.kind = "error")
         => cache' = cache ]_vars

\* a second request ended with an error after commits had been collected,
\* and there is no cache entry
C13_Witness ==
  /\ reqNo = 2
  /\ pc = "done"
  /\ response.kind = "error"
  /\ allCommits # <<>>
  /\ cache = NoPayload

\* a cache hit answers before any branch is listed
ServedFromCache == pc = "done" /\ Ok /\ branchTips = <<>>

\* the build behind the present response saw the outcomes of the first build
SameOutcomes ==
  IF ServedFromCache THEN first.cached = first.outcomes
                     ELSE Outcomes = first.outcomes

\* C14: a later build of the same (owner, repo, maxCommits) with the same
\* provider outcomes as the first, recomputed or served from a cache entry
\* that such a build stored, has the stats, the nodes and the links of the
\* first build.
C14_Idempotent ==
  (pc = "done" /\ Ok /\ first # NoPayload /\ first.req < reqNo /\ SameOutcomes)
    => /\ meta.stats = first.body.meta.stats
       /\ Range(graph.nodes) = Range(first.body.graph.nodes)
       /\ Range(graph.links) = Range(first.body.graph.links)

\* a second build recomputed after the entry expired, with two failed
\* getCommit calls as in the first build
C14_Witness ==
  /\ pc = "done"
  /\ Ok
  /\ first # NoPayload
  /\ first.req < reqNo
  /\ ~ServedFromCache
  /\ SameOutcomes
  /\ Cardinality(failedShas) >= 2

\* C15: two selected branches sharing one root commit, branchA three commits
\* ahead of the root and branchB two, built with maxCommits = 10 in either
\* branch order: exactly 6 nodes, the root is a split with exactly two
\* children, no node is a merge.
C15_TwoBranchScenario ==
  (pc = "done" /\ Ok /\ hist = 8 /\ maxCommits = 10)
    => /\ Len(graph.nodes) = 6
       /\ NodeIds(graph) = 1..6
       /\ NodeOf(graph, 1).isSplit
       /\ Len(NodeOf(graph, 1).childShas) = 2
       /\ Range(NodeOf(graph, 1).childShas) = {2, 5}
       /\ \A i \in DOMAIN graph.nodes : ~graph.nodes[i].isMerge

\* the scenario built with branchB collected first
C15_Witness ==
  /\ pc = "done"
  /\ Ok
  /\ hist = 8
  /\ maxCommits = 10
  /\ branchTips = << "branchB", "branchA" >>
  /\ Len(graph.nodes) = 6

\* C16: in every successful response meta.stats.totalCommits is the number
\* of nodes of graph.nodes, placeholders included.
C16_TotalIsNodeCount == Ok => meta.stats.totalCommits = Len(graph.nodes)

\* a response whose graph has placeholders beyond the commits collected
C16_Witness ==
  /\ pc = "done"
  /\ Ok
  /\ \E i \in DOMAIN graph.nodes : IsPlaceholder(graph.nodes[i])
  /\ meta.commits >= 1
  /\ meta.stats.totalCommits > meta.commits

\* C17: in every successful response branchCounts has an entry for every
\* selected branch and no other, and the entry of B is the number of nodes
\* whose final branches contain B.
C17_BranchCounts ==
  Ok => /\ DOMAIN meta.stats.branchCounts = Range(meta.selectedBranches)
        /\ \A b \in Range(meta.selectedBranches) :
             meta.stats.branchCounts[b] =
               Cardinality({i \in DOMAIN graph.nodes : b \in graph.nodes[i].branches})

\* two selected branches with different counts, one of them counting a
\* placeholder
C17_Witness ==
  /\ pc = "done"
  /\ Ok
  /\ \E a, b \in Range(meta.selectedBranches) :
       /\ meta.stats.branchCounts[a] > meta.stats.branchCounts[b]
       /\ meta.stats.branchCounts[b] >= 1
       /\ \E i \in DOMAIN graph.nodes :
            IsPlaceholder(graph.nodes[i]) /\ a \in graph.nodes[i].branches

\* stats.mergeCommits || 0, as testMergeDetection reads the merge count
ReadMergeCommits(stats) ==
  IF "mergeCommits" \in DOMAIN stats THEN stats.mergeCommits ELSE 0

\* C18: in every successful response the merge count of meta.stats, read as
\* meta.stats.mergeCommits and taken as 0 when absent, is the number of
\* nodes whose isMerge is true.
C18_MergeCountMatchesStats ==
  Ok => ReadMergeCommits(meta.stats) = MergeCount(graph.nodes)

\* the ranking of the request is done
Ranked == pc \notin {"start", "fetchBranches", "fetchDefault", "branchInfos"}

\* C19: the selected list has at most 5 names; a default branch the lookup
\* returned is its first element and occurs in it exactly once, whatever its
\* recency rank and whether or not the provider listed it.
C19_DefaultFirstAtMostFive ==
  /\ Len(branchTips) <= 5
  /\ (Ranked /\ defaultBranch # NullName)
       => /\ Len(branchTips) >= 1
          /\ branchTips[1] = defaultBranch
          /\ Cardinality({i \in DOMAIN branchTips : branchTips[i] = defaultBranch}) = 1

\* six listed branches cut to five, the default b3 moved in front of the
\* more recent ones
C19_Witness ==
  /\ Ranked
  /\ hist = 5
  /\ defaultBranch = "b3"
  /\ "latestCommit" \notin failed
  /\ Len(branchTips) = 5
  /\ branchTips[1] = "b3"
  /\ branchTips[2] = "b6"

\* a default branch missing from the provider's list, put in front
C19_HiddenDefaultFirst ==
  (Ranked /\ hist = 3 /\ defaultBranch # NullName) => branchTips = << "main", "feat" >>

\* floor(maxCommits / B) + 1 for the first maxCommits mod B branches
ExpectedQuota(i) ==
  (maxCommits \div Len(branchTips))
    + (IF i - 1 < maxCommits % Len(branchTips) THEN 1 ELSE 0)

RECURSIVE QuotaSum(_)
QuotaSum(i) == IF i = 0 THEN 0 ELSE BranchQuota(maxCommits, branchTips, i) + QuotaSum(i - 1)

TipIndex(b) == CHOOSE i \in DOMAIN branchTips : branchTips[i] = b

\* C20: with B >= 1 selected branches the quota at fetch-plan index i is
\* floor(maxCommits/B) + 1 when i < maxCommits mod B and floor(maxCommits/B)
\* otherwise; the quotas sum to maxCommits; no branch has more commits
\* accepted under it than its own quota.
C20_QuotaAllocation ==
  (Ranked /\ branchTips # <<>>)
    => /\ \A i \in DOMAIN branchTips :
            BranchQuota(maxCommits, branchTips, i) = ExpectedQuota(i)
       /\ QuotaSum(Len(branchTips)) = maxCommits
       /\ \A b \in DOMAIN perBranchCounts :
            /\ b \in Range(branchTips)
            /\ perBranchCounts[b] <= ExpectedQuota(TipIndex(b))

\* an uneven split: a first branch filled to floor + 1 and a later branch
\* filled to floor
C20_Witness ==
  /\ pc = "done"
  /\ Ok
  /\ Len(branchTips) >= 2
  /\ maxCommits % Len(branchTips) # 0
  /\ maxCommits \div Len(branchTips) >= 1
  /\ perBranchCounts[branchTips[1]] = (maxCommits \div Len(branchTips)) + 1
  /\ perBranchCounts[branchTips[Len(branchTips)]] = maxCommits \div Len(branchTips)

\* the request is inside the loop over branchTips
InCollection == pc \in {"forBranch", "whileTop", "awaitPage", "forCommit", "afterPage"}

MembersOf(c2b, sha) == IF sha \in DOMAIN c2b THEN c2b[sha] ELSE {}

\* C21: at every point of the collection loop remainingGlobalCommits is
\* maxCommits minus the number of commits accepted so far; the step over a
\* commit already seen leaves the global counter, the branch's count and the
\* working set unchanged and adds the current branch to the commit's
\* membership set.
C21_GlobalCounter ==
  [][ /\ InCollection' => remainingGlobalCommits' = maxCommits' - Len(allCommits')
      /\ (pc = "forCommit" /\ pageData[pos] \in seen)
           => /\ remainingGlobalCommits' = remainingGlobalCommits
              /\ branchCommitCount' = branchCommitCount
              /\ perBranchCounts' = perBranchCounts
              /\ allCommits' = allCommits
              /\ seen' = seen
              /\ MembersOf(commitToBranches', pageData[pos])
                   = MembersOf(commitToBranches, pageData[pos]) \cup {branchName} ]_vars

\* a second branch has met a commit of the first, after accepting one itself
C21_Witness ==
  /\ InCollection
  /\ branchIndex = 2
  /\ branchSawExistingSHA
  /\ branchCommitCount >= 1
  /\ \E sha \in DOMAIN commitToBranches : Cardinality(commitToBranches[sha]) >= 2
  /\ remainingGlobalCommits >= 1

\* the k-th request of a branch asks for page k
RequestedInOrder(log) ==
  \A i \in DOMAIN log :
    log[i][2] = Cardinality({j \in 1..i : log[j][1] = log[i][1]})

\* C22: the pages of a branch are requested in the order 1, 2, 3, ...; no
\* page is requested when the branch's count has reached its quota or the
\* global counter is 0, and no further page when the last page was shorter
\* than the page size or contained a commit already seen.
C22_PagingStops ==
  [][ /\ RequestedInOrder(requested')
      /\ Len(requested') > Len(requested)
           => /\ requested' = Append(requested, <<branchName, page>>)
              /\ branchCommitCount < branchQuota
              /\ remainingGlobalCommits > 0
              /\ page > 1 => /\ Len(pageData) = PerPage
                             /\ ~branchSawExistingSHA
                             /\ requested[Len(requested)] = <<branchName, page - 1>> ]_vars

\* one branch asked for a second page, and a later branch stopped at a
\* commit already seen
C22_Witness ==
  /\ pc = "done"
  /\ Ok
  /\ Len(branchTips) >= 2
  /\ \E i \in DOMAIN requested : requested[i] = <<branchTips[1], 2>>
  /\ branchSawExistingSHA
  /\ \A i \in DOMAIN requested : requested[i][1] = branchTips[Len(branchTips)] => requested[i][2] = 1

CountOf(b) == IF b \in DOMAIN perBranchCounts THEN perBranchCounts[b] ELSE 0

\* the fetch-plan index of the branch under which allCommits[k] was
\* accepted: the commits of a branch are pushed while its loop runs
RECURSIVE OwnerIndex(_, _)
OwnerIndex(k, i) ==
  IF i >= Len(branchTips) \/ k <= CountOf(branchTips[i]) THEN i
  ELSE OwnerIndex(k - CountOf(branchTips[i]), i + 1)

\* the earliest fetch-plan index among the branches that reached a commit
EarliestIndex(sha) ==
  LET I == {TipIndex(b) : b \in commitToBranches[sha]}
  IN CHOOSE i \in I : \A j \in I : i <= j

\* C23: page requests are issued one at a time and branch after branch in
\* fetch-plan order; a commit reached by several selected branches is
\* accepted under the earliest of the branches that reached it.
C23_Sequential ==
  (Ranked /\ branchTips # <<>>)
    => /\ \A i, j \in DOMAIN requested :
            i < j => TipIndex(requested[i][1]) <= TipIndex(requested[j][1])
       /\ pc = "awaitPage" => requested[Len(requested)] = <<branchTips[branchIndex], page>>
       /\ \A k \in DOMAIN allCommits :
            /\ allCommits[k] \in DOMAIN commitToBranches
            /\ OwnerIndex(k, 1) = EarliestIndex(allCommits[k])

\* a commit reached by two branches, accepted by the first; the second
\* branch accepted a commit of its own
C23_Witness ==
  /\ pc = "done"
  /\ Ok
  /\ Len(branchTips) >= 2
  /\ CountOf(branchTips[2]) >= 1
  /\ \E k \in DOMAIN allCommits :
       /\ Cardinality(commitToBranches[allCommits[k]]) >= 2
       /\ OwnerIndex(k, 1) = 1

\* the parent ids of the working set that are not in the working set
MissingOfWorkingSet ==
  UNION {Range(Commit(H, allCommits[i]).parents) : i \in DOMAIN allCommits}
    \ Range(allCommits)

\* C24: ancestor expansion issues at most min(maxFetch, ParentCap) getCommit
\* calls, each for a parent id of a working-set commit that is not in the
\* working set, none twice; at most batchSize calls are outstanding, and the
\* outstanding calls all belong to the latest batch.
C24_BoundedExpansion ==
  /\ Len(getCalls) <= Min(MAX_PARENT_FETCH, ParentCap)
  /\ Range(getCalls) \subseteq MissingOfWorkingSet
  /\ \A i, j \in DOMAIN getCalls : getCalls[i] = getCalls[j] => i = j
  /\ Cardinality(pending) <= batchSize
  /\ pc # "awaitBatch" => pending = {}
  /\ pc = "awaitBatch"
       => /\ getCalls = SubSeq(parentsToFetch, 1, Len(getCalls))
          /\ Len(getCalls) = Min(epI + batchSize, Len(parentsToFetch))
          /\ pending \subseteq Range(Batch(parentsToFetch, epI))
          /\ DOMAIN results = Range(Batch(parentsToFetch, epI)) \ pending

\* more parents missing than the cap allows: two batches, one parent never
\* requested
C24_Witness ==
  /\ pc = "done"
  /\ Ok
  /\ Len(getCalls) = Min(MAX_PARENT_FETCH, ParentCap)
  /\ Len(getCalls) > batchSize
  /\ MissingOfWorkingSet \ Range(getCalls) # {}

\* the request ended in the catch block
Failed == pc = "done" /\ response.kind = "error"

\* C25: a fatal provider failure is reported with one kind: HTTP 404 as
\* "Repository not found", 403 as rate limit exceeded, 401 as authentication
\* failed, a timeout without HTTP response as "Request timed out" and as
\* nothing else.
C25_ErrorKinds ==
  Failed
    => /\ thrown \in Errors
       /\ thrown.status = 404 <=> response.body.error = "Repository not found"
       /\ thrown.status = 403 <=> response.body.error = "GitHub API rate limit exceeded"
       /\ thrown.status = 401 <=> response.body.error = "GitHub authentication failed"
       /\ (thrown.status = Null /\ thrown.code = "ECONNABORTED")
            <=> response.body.error = "Request timed out"
       /\ thrown.status \in {404, 403, 401} => response.status = thrown.status
       /\ thrown.status = Null => response.status = 500

\* a page request of the collection loop timed out after commits had been
\* accepted
C25_Witness ==
  /\ Failed
  /\ thrown.status = Null
  /\ thrown.code = "ECONNABORTED"
  /\ "listCommits" \in failed
  /\ allCommits # <<>>
  /\ response.body.error = "Request timed out"

\* the number of links leaving a node
OutLinks(g, id) == Cardinality({k \in DOMAIN g.links : g.links[k].source = id})

Pass3 == Propagated(expandedCommits, commitToBranches)

\* C27: pass 3 ends on every node set, cyclic ones included, writing the
\* branches of each node at most once; it only adds branch names, so the
\* final branches of a node include those the collector recorded for it.
C27_PropagationBounded ==
  /\ pc = "build"
       => /\ \A i, j \in DOMAIN Pass3.p.updates :
                 Pass3.p.updates[i] = Pass3.p.updates[j] => i = j
          /\ Range(Pass3.p.updates) \subseteq Pass3.p.visited
          /\ Pass3.p.visited \subseteq {Pass3.g.nodes[i].id : i \in DOMAIN Pass3.g.nodes}
          /\ DOMAIN Pass3.p.nodes = DOMAIN Pass3.g.nodes
          /\ \A i \in DOMAIN Pass3.g.nodes :
               /\ Pass3.p.nodes[i].id = Pass3.g.nodes[i].id
               /\ Pass3.g.nodes[i].branches \subseteq Pass3.p.nodes[i].branches
  /\ (pc = "done" /\ Ok)
       => \A sha \in Range(epSeen) \cap DOMAIN commitToBranches :
            commitToBranches[sha] \subseteq NodeOf(graph, sha).branches

\* pass 3 on the cyclic node set of history 4: both commits are nodes, each
\* the parent of the other, and both were written
C27_Witness ==
  /\ pc = "build"
  /\ hist = 4
  /\ Len(Pass3.g.nodes) = 2
  /\ \A i \in DOMAIN Pass3.g.nodes : Pass3.g.nodes[i].parentShas # <<>>
  /\ Len(Pass3.p.updates) = 2

\* C28: every commit id with an entry in commitToBranches is in the working
\* set; the headroom test before the acceptance of a commit not yet seen
\* never fails.
C28_MembersAreCollected ==
  /\ DOMAIN commitToBranches \subseteq Range(allCommits)
  /\ DOMAIN commitToBranches \subseteq seen
  /\ (pc = "forCommit" /\ pageData[pos] \notin seen)
       => /\ branchCommitCount < BranchQuota(maxCommits, branchTips, branchIndex)
          /\ remainingGlobalCommits > 0

\* the quota of a branch was filled before the end of a page: the rest of
\* the page is left unrecorded
C28_Witness ==
  /\ pc = "afterPage"
  /\ pos < Len(pageData)
  /\ branchCommitCount = BranchQuota(maxCommits, branchTips, branchIndex)
  /\ pageData[pos + 1] \notin DOMAIN commitToBranches
  /\ branchIndex >= 2

\* the while loop of the branch at branchIndex is running
InBranch == pc \in {"whileTop", "awaitPage", "forCommit", "afterPage"}

\* the sum of the quotas of the branches at the indices i..Len(branchTips)
RECURSIVE QuotaFrom(_)
QuotaFrom(i) ==
  IF i > Len(branchTips) THEN 0 ELSE ExpectedQuota(i) + QuotaFrom(i + 1)

\* the quota the branches at the indices 1..i left unused
RECURSIVE UnusedUpTo(_)
UnusedUpTo(i) ==
  IF i = 0 THEN 0
  ELSE (ExpectedQuota(i) - CountOf(branchTips[i])) + UnusedUpTo(i - 1)

\* C29: while the branch at index i is processed, remainingGlobalCommits is
\* at least the rest of its quota plus the quotas of all later branches, so
\* it is 0 only when the quota of the branch is used up; the quota a branch
\* leaves unused stays in the global counter and goes to no later branch.
C29_GlobalHeadroom ==
  /\ InBranch
       => /\ remainingGlobalCommits
               >= (ExpectedQuota(branchIndex) - branchCommitCount)
                    + QuotaFrom(branchIndex + 1)
          /\ remainingGlobalCommits
               = (ExpectedQuota(branchIndex) - branchCommitCount)
                    + QuotaFrom(branchIndex + 1) + UnusedUpTo(branchIndex - 1)
          /\ remainingGlobalCommits <= 0 => branchCommitCount >= ExpectedQuota(branchIndex)
  /\ (pc \in {"batchLoop", "awaitBatch", "build"} /\ branchTips # <<>>)
       => /\ remainingGlobalCommits = UnusedUpTo(Len(branchTips))
          /\ \A i \in DOMAIN branchTips : CountOf(branchTips[i]) <= ExpectedQuota(i)

\* a later branch has used up its quota while the global counter still
\* holds what the first branch left unused
C29_Witness ==
  /\ InBranch
  /\ branchIndex >= 2
  /\ UnusedUpTo(1) >= 1
  /\ ExpectedQuota(branchIndex) >= 1
  /\ branchCommitCount = ExpectedQuota(branchIndex)
  /\ remainingGlobalCommits >= 1
  /\ QuotaFrom(branchIndex + 1) = 0

\* what ensureParents holds once the calls logged in getCalls are folded:
\* the input commits, then the requested parents that were returned, in the
\* order of the requests
ExpectedSeen ==
  UniqueBySha(allCommits, <<>>) \o SelectSeq(getCalls, LAMBDA sha : sha \notin failedShas)

\* C30: the commits ensureParents returns, and their order, are determined
\* by its input and the outcome of each getCommit call, whatever the order
\* in which the calls of a batch complete; every input commit is among them
\* and no id occurs twice.
C30_OrderIndependent ==
  pc \in {"batchLoop", "build"}
    => /\ epSeen = ExpectedSeen
       /\ SubSeq(epSeen, 1, Len(allCommits)) = allCommits
       /\ \A i, j \in DOMAIN epSeen : epSeen[i] = epSeen[j] => i = j

\* ensureParents returns after a batch of two calls that both answered with
\* a commit
C30_Witness ==
  /\ pc = "build"
  /\ Len(parentsToFetch) >= 2
  /\ batchSize >= 2
  /\ {parentsToFetch[1], parentsToFetch[2]} \cap failedShas = {}
  /\ Len(epSeen) >= Len(allCommits) + 2

====
